---- MODULE Spec2Model ----
(***************************************************************************)
(* Model of FileHashing/listdir.py: the directory walk of                  *)
(* list_files_in_batches, the parallel hashing of process_batch, the       *)
(* incremental JSON writer write_to_json and the driver main.              *)
(*                                                                         *)
(* The output file is a sequence of tokens, one token per f.write /        *)
(* json.dump call of the program.                                          *)
(***************************************************************************)
EXTENDS Integers, Sequences, FiniteSets, TLC

\* ------------------------------------------------------------------ bounds
\* Number of leading entries of Universe a modelled tree may contain.
MaxEntries == 6
\* Largest modelled value of BATCH_SIZE.
MaxBatch == 3
\* Longest file content and largest chunk size when compute_file_hash is
\* followed read by read.
MaxLen == 3
MaxChunk == 2
\* Number of calls of main in one process.
MaxRuns == 2

\* ------------------------------------------------------- program constants
CHUNK_SIZE == 8388608

EXCLUDED_DIRS == {"$RECYCLE.BIN", "System Volume Information"}

\* ------------------------------------------------------------ file system
\* The paths Path(root_dir).rglob('*') can produce, in walk order.  A tree
\* is a subsequence of the first MaxEntries of them.
Universe ==
  << "a.txt", "b.txt", "c/d.txt", "c/$RECYCLE.BIN/x.txt", "c", "e.txt",
     "System Volume Information", "g.txt", "h.txt" >>

\* file.parts
Parts(p) ==
  CASE p = "c/d.txt" -> << "c", "d.txt" >>
    [] p = "c/$RECYCLE.BIN/x.txt" -> << "c", "$RECYCLE.BIN", "x.txt" >>
    [] OTHER -> << p >>

\* file.is_file()
IsFile(p) == p \notin {"c", "System Volume Information"}

\* The bytes of a regular file.
Content(p) ==
  CASE p = "a.txt" -> << 1, 2 >>
    [] p = "b.txt" -> << 1, 2 >>
    [] p = "c/d.txt" -> << 3, 4, 5 >>
    [] p = "e.txt" -> << >>
    [] p = "g.txt" -> << 6 >>
    [] OTHER -> << 7, 7 >>

Min(a, b) == IF a < b THEN a ELSE b

\* a filter that looks at the first path segment only
IsExcludedTopLevel(p) == Parts(p)[1] \in EXCLUDED_DIRS

\* any(part in EXCLUDED_DIRS for part in file.parts)
IsExcluded(p) == \E i \in 1..Len(Parts(p)) : Parts(p)[i] \in EXCLUDED_DIRS

\* ---------------------------------------------------------------- hashing
\* compute_file_hash returns None on any exception; None and the records'
\* digests are sequences, None the empty one (falsy, as in "if file_hash").
None == << >>

\* hash_func.hexdigest(): the digest is modelled as an injective function
\* of the bytes fed to hash_func.update, never empty.
HexDigest(fed) == << 0 >> \o fed

\* a read that returns full chunks only
NextChunkFullOnly(rest, size) ==
  IF Len(rest) < size THEN << >> ELSE SubSeq(rest, 1, size)

\* f.read(size): at most size bytes, empty at end of file
NextChunk(rest, size) == SubSeq(rest, 1, Min(size, Len(rest)))

\* while chunk := f.read(size): hash_func.update(chunk)
RECURSIVE ReadChunksBy(_, _, _)
ReadChunksBy(fed, rest, size) ==
  LET chunk == NextChunk(rest, size)
  IN IF chunk = << >> THEN fed
     ELSE ReadChunksBy(fed \o chunk,
                       SubSeq(rest, Len(chunk) + 1, Len(rest)), size)

\* the loop with the program's chunk size
ReadChunks(fed, rest) == ReadChunksBy(fed, rest, CHUNK_SIZE)

\* compute_file_hash(file_path); readFails: open or read raises.
compute_file_hash(file_path, readFails) ==
  IF readFails THEN None ELSE HexDigest(ReadChunks(<< >>, Content(file_path)))

\* ------------------------------------------------------------ output file
Tok(k) == [kind |-> k, file_path |-> "", hash |-> << >>]
\* '{\n  "hashes": [\n'
PREAMBLE == Tok("PRE")
\* ',\n'
SEPARATOR == Tok("SEP")
\* '\n  ]\n}\n'
CLOSING == Tok("CLOSE")
\* json.dump(entry, f, indent=4)
JsonDump(entry) == [kind |-> "REC", file_path |-> entry.file_path, hash |-> entry.hash]
\* content of the output file left by an earlier program
OLD == Tok("OLD")

VARIABLES
  tree,                 \* the entries rglob produces, in order
  dry_run,              \* --dry-run
  BATCH_SIZE,           \* the module constant BATCH_SIZE (20 in the source),
                        \* fixed for a run; every value 1..MaxBatch is modelled
  sink,                 \* content of output_file
  sink0,                \* content of output_file before the run
  first_entry_written,  \* module-level flag
  first_batch_written,  \* module-level flag
  is_last_batch,        \* local of main
  pc,                   \* position of main
  pos,                  \* generator: index of the next entry of tree
  file_batch,           \* generator: the batch being filled
  batch,                \* main: the batch received from the generator
  futures,              \* process_batch: result of each hashing task
  doneOrder,            \* process_batch: task indices in completion order
  results,              \* main: the records process_batch returned
  widx,                 \* write_to_json: index of the next entry of data
  yielded,              \* history: all files yielded so far, in order
  walkError,            \* history: the exception that ended the walk
  errPos,               \* history: index of the entry where it was raised
  hashFailed,           \* history: files whose hashing returned None
  forcedCloses,         \* history: closings appended by main
  inbandCloses,         \* history: closings appended by write_to_json
  loopExit,             \* history: how main's "async for" ended
  writeErrors,          \* history: exceptions caught by write_to_json
  run,                  \* number of the current call of main in the process
  hContent,             \* compute_file_hash alone: the bytes of the file
  hChunk,               \* compute_file_hash alone: the chunk size
  hrest,                \* compute_file_hash alone: the bytes not yet read
  hfed,                 \* compute_file_hash alone: the bytes fed to update
  hresult,              \* compute_file_hash alone: the value returned
  hfailed,              \* compute_file_hash alone: a read raised
  hpc                   \* compute_file_hash alone: position

vars == << tree, dry_run, BATCH_SIZE, sink, sink0, first_entry_written,
           first_batch_written, is_last_batch, pc, pos, file_batch, batch,
           futures, doneOrder, results, widx, yielded, walkError, errPos,
           hashFailed, forcedCloses, inbandCloses, loopExit, writeErrors,
           run, hContent, hChunk, hrest, hfed, hresult, hfailed, hpc >>

config == << tree, dry_run, BATCH_SIZE, sink0 >>
gen == << pos, file_batch >>
flags == << first_entry_written, first_batch_written >>
closes == << forcedCloses, inbandCloses >>
walk == << walkError, errPos, loopExit >>
env == << writeErrors, run >>
hasher == << hContent, hChunk, hrest, hfed, hresult, hfailed, hpc >>

\* ------------------------------------------------------------------ trees
RECURSIVE Pick(_, _)
\* the subsequence of Universe[1..n] whose indices are in S
Pick(S, n) ==
  IF n = 0 THEN << >>
  ELSE IF n \in S THEN Append(Pick(S, n - 1), Universe[n]) ELSE Pick(S, n - 1)

Trees == { Pick(S, MaxEntries) : S \in SUBSET (1..MaxEntries) }

\* compute_file_hash is not being followed on its own
HasherIdle ==
  /\ hContent = << >>
  /\ hChunk = CHUNK_SIZE
  /\ hrest = << >>
  /\ hfed = << >>
  /\ hresult = None
  /\ hfailed = FALSE
  /\ hpc = "idle"

Init ==
  /\ tree \in Trees
  /\ dry_run \in BOOLEAN
  /\ BATCH_SIZE \in 1..MaxBatch
  /\ sink0 \in { << >>, << OLD >> }
  /\ sink = sink0
  /\ first_entry_written = FALSE
  /\ first_batch_written = FALSE
  /\ is_last_batch = FALSE
  /\ pc = "truncate"
  /\ pos = 1
  /\ file_batch = << >>
  /\ batch = << >>
  /\ futures = << >>
  /\ doneOrder = << >>
  /\ results = << >>
  /\ widx = 1
  /\ yielded = << >>
  /\ walkError = "none"
  /\ errPos = 0
  /\ hashFailed = {}
  /\ forcedCloses = 0
  /\ inbandCloses = 0
  /\ loopExit = "running"
  /\ writeErrors = 0
  /\ run = 1
  /\ HasherIdle

\* ------------------------------------------------------------------- main
\* main: is_last_batch = False; open(output_file, 'w').close()
Truncate ==
  /\ pc = "truncate"
  /\ sink' = << >>
  /\ is_last_batch' = FALSE
  /\ pc' = "scan"
  /\ UNCHANGED << config, env, hasher, flags, gen, batch, futures, doneOrder, results, widx,
                  yielded, hashFailed, closes, walk >>

\* ------------------------------------------------- list_files_in_batches
\* a generator that yields one file late
IsFullBatchLate(n, size) == n > size

\* if len(file_batch) == BATCH_SIZE:
IsFullBatch(n, size) == n = size

\* One iteration of "for file in Path(root_dir).rglob('*')".
ScanEntry ==
  /\ pc = "scan"
  /\ pos <= Len(tree)
  /\ pos' = pos + 1
  /\ LET file == tree[pos]
     IN IF IsExcluded(file) \/ ~IsFile(file)
        THEN UNCHANGED << file_batch, batch, pc, yielded >>
        ELSE IF IsFullBatch(Len(file_batch) + 1, BATCH_SIZE)
             THEN /\ batch' = Append(file_batch, file)
                  /\ yielded' = yielded \o batch'
                  /\ file_batch' = << >>
                  /\ pc' = "process"
             ELSE /\ file_batch' = Append(file_batch, file)
                  /\ UNCHANGED << batch, pc, yielded >>
  /\ UNCHANGED << config, env, hasher, sink, flags, is_last_batch, futures, doneOrder,
                  results, widx, hashFailed, closes, walk >>

\* rglob or is_file raises at entry pos; both except clauses log and the
\* generator returns, so main's loop ends as on exhaustion.
ScanRaise ==
  /\ pc = "scan"
  /\ pos <= Len(tree)
  /\ \E e \in {"PermissionError", "Exception"} : walkError' = e
  /\ errPos' = pos
  /\ loopExit' = "StopAsyncIteration"
  /\ pc' = "loop_end"
  /\ UNCHANGED << config, env, hasher, sink, flags, is_last_batch, gen, batch, futures,
                  doneOrder, results, widx, yielded, hashFailed, closes >>

\* The for loop is exhausted: "if file_batch: yield file_batch", then return.
ScanEnd ==
  /\ pc = "scan"
  /\ pos > Len(tree)
  /\ IF file_batch # << >>
     THEN /\ batch' = file_batch
          /\ yielded' = yielded \o file_batch
          /\ file_batch' = << >>
          /\ pc' = "process"
          /\ UNCHANGED loopExit
     ELSE /\ loopExit' = "StopAsyncIteration"
          /\ pc' = "loop_end"
          /\ UNCHANGED << batch, yielded, file_batch >>
  /\ UNCHANGED << config, env, hasher, sink, flags, is_last_batch, pos, futures, doneOrder,
                  results, widx, hashFailed, closes, walkError, errPos >>

\* ---------------------------------------------------------- process_batch
\* hash_futures = [run_in_executor(hash_executor, compute_file_hash, file)
\*                 for file in batch]
Dispatch ==
  /\ pc = "process"
  /\ futures' = [i \in 1..Len(batch) |-> None]
  /\ doneOrder' = << >>
  /\ pc' = "hashing"
  /\ UNCHANGED << config, env, hasher, sink, flags, is_last_batch, gen, batch, results,
                  widx, yielded, hashFailed, closes, walk >>

\* One hashing task of the pool finishes; tasks finish in any order.
HashTask ==
  /\ pc = "hashing"
  /\ \E i \in 1..Len(batch) :
       /\ \A k \in 1..Len(doneOrder) : doneOrder[k] # i
       /\ \E readFails \in BOOLEAN :
            /\ futures' = [futures EXCEPT ![i] = compute_file_hash(batch[i], readFails)]
            /\ hashFailed' = IF readFails THEN hashFailed \cup {batch[i]}
                             ELSE hashFailed
       /\ doneOrder' = Append(doneOrder, i)
  /\ UNCHANGED << config, env, hasher, sink, flags, is_last_batch, gen, batch, results,
                  widx, yielded, closes, walk, pc >>

\* the list asyncio.gather would return if it followed completion order
GatherAsCompleted(futs, order) == [k \in 1..Len(order) |-> futs[order[k]]]

\* computed_hashes = await asyncio.gather(*hash_futures): the results in the
\* order of hash_futures, whatever the completion order.
Gather(futs, order) == [k \in 1..Len(futs) |-> futs[k]]

\* 1..n as a sequence
Indices(n) == [i \in 1..n |-> i]

\* the zip loop pairing each surviving file with the next surviving hash
CombineShifted(b, hashes) ==
  LET ok == SelectSeq(hashes, LAMBDA h : h # None)
  IN [k \in 1..Len(ok) |-> [file_path |-> b[k], hash |-> ok[k]]]

\* for file, file_hash in zip(batch, computed_hashes):
\*     if file_hash: results.append({'file_path': str(file), 'hash': file_hash})
Combine(b, hashes) ==
  LET ok == SelectSeq(Indices(Len(b)), LAMBDA i : hashes[i] # None)
  IN [k \in 1..Len(ok) |-> [file_path |-> b[ok[k]], hash |-> hashes[ok[k]]]]

\* a gather that returns as soon as one task has finished
AnyDone(order, b) == Len(order) >= 1

\* await asyncio.gather(*hash_futures) returns when every task has finished
AllDone(order, b) == Len(order) = Len(b)

\* process_batch returns; main: is_last_batch = len(batch) < BATCH_SIZE;
\* if not dry_run and results: await write_to_json(...)
GatherBatch ==
  /\ pc = "hashing"
  /\ AllDone(doneOrder, batch)
  /\ results' = Combine(batch, Gather(futures, doneOrder))
  /\ is_last_batch' = (Len(batch) < BATCH_SIZE)
  /\ pc' = IF ~dry_run /\ results' # << >> THEN "write" ELSE "scan"
  /\ UNCHANGED << config, env, hasher, sink, flags, gen, batch, futures, doneOrder, widx,
                  yielded, hashFailed, closes, walk >>

\* ---------------------------------------------------------- write_to_json
\* a writer that opens the document with every batch
PreambleEveryBatch(batchWritten) == TRUE

\* if not first_batch_written:
NeedsPreamble(batchWritten) == ~batchWritten

\* if data: open(output_file, 'a'); the preamble if not first_batch_written
WriteOpen ==
  /\ pc = "write"
  /\ IF results # << >>
     THEN /\ pc' = "write_entry"
          /\ widx' = 1
          /\ IF NeedsPreamble(first_batch_written)
             THEN /\ sink' = Append(sink, PREAMBLE)
                  /\ first_batch_written' = TRUE
             ELSE UNCHANGED << sink, first_batch_written >>
     ELSE /\ pc' = "scan"
          /\ UNCHANGED << widx, sink, first_batch_written >>
  /\ UNCHANGED << config, env, hasher, first_entry_written, is_last_batch, gen, batch,
                  futures, doneOrder, results, yielded, hashFailed, closes,
                  walk >>

\* a writer that separates the entries of one batch only
SeparatorByIndex(entryWritten, index) == index > 1

\* if first_entry_written: f.write(',\n')
NeedsSeparator(entryWritten, index) == entryWritten

\* One iteration of "for index, entry in enumerate(data)".
WriteEntry ==
  /\ pc = "write_entry"
  /\ widx <= Len(results)
  /\ sink' = (IF NeedsSeparator(first_entry_written, widx)
              THEN Append(sink, SEPARATOR) ELSE sink)
               \o << JsonDump(results[widx]) >>
  /\ first_entry_written' = TRUE
  /\ widx' = widx + 1
  /\ UNCHANGED << config, env, hasher, first_batch_written, is_last_batch, gen, batch,
                  futures, doneOrder, results, yielded, hashFailed, closes,
                  walk, pc >>

\* After the loop: "if is_last_batch: f.write(closing)"; the file is closed
\* and write_to_json returns to main's loop.
WriteFinish ==
  /\ pc = "write_entry"
  /\ widx > Len(results)
  /\ IF is_last_batch
     THEN /\ sink' = Append(sink, CLOSING)
          /\ inbandCloses' = inbandCloses + 1
     ELSE UNCHANGED << sink, inbandCloses >>
  /\ pc' = "scan"
  /\ UNCHANGED << config, env, hasher, flags, is_last_batch, gen, batch, futures, doneOrder,
                  results, widx, yielded, hashFailed, forcedCloses, walk >>

\* ------------------------------------------------ main, after the loop
\* a main that never closes the document after the loop
NoForcedClose(dry, last) == FALSE

\* a main that closes after the loop whatever write_to_json did
AlwaysForcedClose(dry, last) == ~dry

\* if not dry_run and not is_last_batch:
NeedsForcedClose(dry, last) == ~dry /\ ~last

ForcedClose ==
  /\ pc = "loop_end"
  /\ IF NeedsForcedClose(dry_run, is_last_batch)
     THEN /\ sink' = Append(sink, CLOSING)
          /\ forcedCloses' = forcedCloses + 1
     ELSE UNCHANGED << sink, forcedCloses >>
  /\ pc' = "done"
  /\ UNCHANGED << config, env, hasher, flags, is_last_batch, gen, batch, futures, doneOrder,
                  results, widx, yielded, hashFailed, inbandCloses, walk >>

Next ==
  \/ Truncate
  \/ ScanEntry
  \/ ScanRaise
  \/ ScanEnd
  \/ Dispatch
  \/ HashTask
  \/ GatherBatch
  \/ WriteOpen
  \/ WriteEntry
  \/ WriteFinish
  \/ ForcedClose

Spec == Init /\ [][Next]_vars

\* --------------------------------------- compute_file_hash, read by read
\* main is not running
MainIdle ==
  /\ tree = << >>
  /\ dry_run = TRUE
  /\ BATCH_SIZE = 1
  /\ sink0 = << >>
  /\ sink = << >>
  /\ first_entry_written = FALSE
  /\ first_batch_written = FALSE
  /\ is_last_batch = FALSE
  /\ pc = "idle"
  /\ pos = 1
  /\ file_batch = << >>
  /\ batch = << >>
  /\ futures = << >>
  /\ doneOrder = << >>
  /\ results = << >>
  /\ widx = 1
  /\ yielded = << >>
  /\ walkError = "none"
  /\ errPos = 0
  /\ hashFailed = {}
  /\ forcedCloses = 0
  /\ inbandCloses = 0
  /\ loopExit = "running"
  /\ writeErrors = 0
  /\ run = 1

main == << config, sink, flags, is_last_batch, pc, gen, batch, futures,
           doneOrder, results, widx, yielded, hashFailed, closes, walk, env >>

RECURSIVE SeqsUpTo(_, _)
\* the sequences over S of length at most n
SeqsUpTo(S, n) ==
  IF n = 0 THEN { << >> }
  ELSE LET shorter == SeqsUpTo(S, n - 1)
       IN shorter \cup { Append(q, x) : q \in shorter, x \in S }

\* hash_func = hashlib.new(HASH_ALGORITHM); open(file_path, 'rb')
InitHash ==
  /\ MainIdle
  /\ hContent \in SeqsUpTo({1, 2}, MaxLen)
  /\ hChunk \in 1..MaxChunk
  /\ hrest = hContent
  /\ hfed = << >>
  /\ hresult = None
  /\ hfailed = FALSE
  /\ hpc = "read"

\* One evaluation of "chunk := f.read(CHUNK_SIZE)": a non-empty chunk is
\* fed to hash_func.update, an empty one ends the loop and the function
\* returns hash_func.hexdigest().
HashRead ==
  /\ hpc = "read"
  /\ LET chunk == NextChunk(hrest, hChunk)
     IN IF chunk = << >>
        THEN /\ hresult' = HexDigest(hfed)
             /\ hpc' = "returned"
             /\ UNCHANGED << hfed, hrest >>
        ELSE /\ hfed' = hfed \o chunk
             /\ hrest' = SubSeq(hrest, Len(chunk) + 1, Len(hrest))
             /\ UNCHANGED << hresult, hpc >>
  /\ UNCHANGED << main, hContent, hChunk, hfailed >>

\* open or f.read raises: "except Exception" logs a warning, returns None.
HashRaise ==
  /\ hpc = "read"
  /\ hfailed' = TRUE
  /\ hresult' = None
  /\ hpc' = "returned"
  /\ UNCHANGED << main, hContent, hChunk, hfed, hrest >>

NextHash ==
  \/ HashRead
  \/ HashRaise

\* compute_file_hash on one file, for every content and chunk size
SpecHash == InitHash /\ [][NextHash]_vars

\* ------------------------------------------- main called more than once
\* main(root_dir, output_file, dry_run) is called again in the same process
\* after it returned: its locals and the generator are new, the output file
\* is the one the earlier call left, and the module-level flags
\* first_entry_written and first_batch_written keep their values, since
\* main only declares them global and never assigns them.
Rerun ==
  /\ pc = "done"
  /\ run < MaxRuns
  /\ run' = run + 1
  /\ sink0' = sink
  /\ pc' = "truncate"
  /\ is_last_batch' = FALSE
  /\ pos' = 1
  /\ file_batch' = << >>
  /\ batch' = << >>
  /\ futures' = << >>
  /\ doneOrder' = << >>
  /\ results' = << >>
  /\ widx' = 1
  /\ yielded' = << >>
  /\ walkError' = "none"
  /\ errPos' = 0
  /\ hashFailed' = {}
  /\ forcedCloses' = 0
  /\ inbandCloses' = 0
  /\ loopExit' = "running"
  /\ UNCHANGED << tree, dry_run, BATCH_SIZE, sink, flags, writeErrors, hasher >>

NextRerun ==
  \/ Next
  \/ Rerun

\* up to MaxRuns calls of main in one process
SpecRerun == Init /\ [][NextRerun]_vars

\* ------------------------------------------- write_to_json, failing sink
\* open, f.write or json.dump raises inside the try of write_to_json: the
\* except clause logs the error and write_to_json returns normally to
\* main's loop.  What was written before the exception stays in the file
\* (a separator whose record could not be written included) and the flags
\* keep the values assigned so far.
WriteFail ==
  /\ pc \in {"write", "write_entry"}
  /\ \E sepWritten \in BOOLEAN :
       sink' = IF /\ sepWritten
                  /\ pc = "write_entry"
                  /\ widx <= Len(results)
                  /\ NeedsSeparator(first_entry_written, widx)
               THEN Append(sink, SEPARATOR)
               ELSE sink
  /\ writeErrors' = writeErrors + 1
  /\ pc' = "scan"
  /\ UNCHANGED << config, run, hasher, flags, is_last_batch, gen, batch,
                  futures, doneOrder, results, widx, yielded, hashFailed,
                  closes, walk >>

NextW ==
  \/ Next
  \/ WriteFail

\* the program with an output file whose writes can fail
SpecW == Init /\ [][NextW]_vars

\* ------------------------------------------------------- document grammar
\* the records of a document, without the punctuation
RecordsOf(s) ==
  LET r == SelectSeq(s, LAMBDA t : t.kind = "REC")
  IN [k \in 1..Len(r) |-> [file_path |-> r[k].file_path, hash |-> r[k].hash]]

\* r1 SEP r2 SEP ... rk, k >= 0: no leading, doubled or trailing separator
SeparatedRecords(s) ==
  \/ s = << >>
  \/ /\ Len(s) % 2 = 1
     /\ \A i \in 1..Len(s) : s[i].kind = (IF i % 2 = 1 THEN "REC" ELSE "SEP")

\* a valid document that lacks only the closing tokens
OpenDocument(s) ==
  /\ Len(s) >= 1
  /\ s[1] = PREAMBLE
  /\ SeparatedRecords(SubSeq(s, 2, Len(s)))

\* {"hashes": [r1, ..., rk]}
CompleteDocument(s) ==
  /\ Len(s) >= 2
  /\ s[1] = PREAMBLE
  /\ s[Len(s)] = CLOSING
  /\ SeparatedRecords(SubSeq(s, 2, Len(s) - 1))

CountOf(s, t) == Cardinality({ i \in 1..Len(s) : s[i] = t })

\* the regular files of a walk that have no excluded path segment
Eligible(t) == SelectSeq(t, LAMBDA p : IsFile(p) /\ ~IsExcluded(p))

\* the records the files of a path sequence must produce: the files whose
\* hashing failed dropped, the others in order, each with its own digest
ExpectedRecords(paths) ==
  LET ok == SelectSeq(paths, LAMBDA p : p \notin hashFailed)
  IN [k \in 1..Len(ok) |->
        [file_path |-> ok[k], hash |-> HexDigest(Content(ok[k]))]]

Range(s) == { s[i] : i \in 1..Len(s) }

\* no write to the output file is in progress
Quiescent == pc \in {"scan", "loop_end", "done"}

\* ------------------------------------------------------------------ claims

\* C1 (Validity): at the end of every non-dry run whose walk completed, the
\* output file is a complete document: one preamble, records separated by
\* single separators, one closing.
Validity ==
  (pc = "done" /\ ~dry_run /\ walkError = "none") => CompleteDocument(sink)

\* C2 (Sink invariant): after the initial truncation the output file is
\* always empty, a valid document lacking only the closing tokens, or a
\* complete document.
SinkInvariant ==
  pc # "truncate" =>
    (sink = << >> \/ OpenDocument(sink) \/ CompleteDocument(sink))

\* C3 (Exact-multiple fallback): when the scanner yielded a positive number
\* of files that is an exact multiple of the batch size, main appended the
\* closing tokens once after the loop (write_to_json never did), the file
\* ends with the only closing it holds, and an opened document is complete.
ExactMultipleFallback ==
  (pc = "done" /\ ~dry_run /\ Len(yielded) > 0
     /\ Len(yielded) % BATCH_SIZE = 0) =>
    /\ forcedCloses = 1
    /\ inbandCloses = 0
    /\ sink # << >>
    /\ sink[Len(sink)] = CLOSING
    /\ CountOf(sink, CLOSING) = 1
    /\ (first_batch_written => CompleteDocument(sink))

\* witness of C3: two full batches were written and closed by the fallback
ExactMultipleFallbackWitness ==
  /\ pc = "done"
  /\ ~dry_run
  /\ walkError = "none"
  /\ BATCH_SIZE = 2
  /\ Len(yielded) = 4
  /\ forcedCloses = 1
  /\ Len(RecordsOf(sink)) = 4
  /\ CompleteDocument(sink)

\* C4 (Completeness): at the end of a non-dry run that was not aborted by a
\* fatal error, the file paths of the output are exactly the eligible files
\* of the tree (the entry of a permission failure apart) whose hashing did
\* not fail.
Completeness ==
  (pc = "done" /\ ~dry_run /\ walkError # "Exception") =>
    { r.file_path : r \in Range(RecordsOf(sink)) }
      = { tree[i] : i \in { j \in 1..Len(tree) :
                              /\ j # errPos
                              /\ IsFile(tree[j])
                              /\ ~IsExcluded(tree[j]) } } \ hashFailed

\* C5 (Order preservation): whenever no write is in progress the records of
\* the output are the files yielded so far, failed ones removed, in scan
\* order and each batch before the next; during a write they are those of
\* the earlier batches followed by the entries written so far; after a
\* complete walk they are the eligible files of the tree in scan order.
OrderPreservation ==
  /\ (Quiescent /\ ~dry_run) => RecordsOf(sink) = ExpectedRecords(yielded)
  /\ pc = "write_entry" =>
       RecordsOf(sink)
         = ExpectedRecords(SubSeq(yielded, 1, Len(yielded) - Len(batch)))
             \o SubSeq(results, 1, widx - 1)
  /\ (pc = "done" /\ ~dry_run /\ walkError = "none") =>
       RecordsOf(sink) = ExpectedRecords(Eligible(tree))

\* witness of C5: the tasks of the last batch finished in reverse order, a
\* file was dropped and records of two batches were written
OrderPreservationWitness ==
  /\ pc = "done"
  /\ ~dry_run
  /\ walkError = "none"
  /\ BATCH_SIZE = 2
  /\ doneOrder = << 2, 1 >>
  /\ hashFailed # {}
  /\ Len(RecordsOf(sink)) = 3

\* C6 (Failure isolation): process_batch returns the records of the files
\* of the batch whose hashing succeeded, in batch order and each with its
\* own digest; after the write of the batch the document is well formed and
\* ends with these records.
FailureIsolation ==
  /\ (pc \in {"write", "write_entry", "scan", "loop_end"} /\ batch # << >>) =>
       results = ExpectedRecords(batch)
  /\ (pc \in {"scan", "loop_end"} /\ ~dry_run /\ results # << >>) =>
       /\ OpenDocument(sink) \/ CompleteDocument(sink)
       /\ Len(RecordsOf(sink)) >= Len(results)
       /\ SubSeq(RecordsOf(sink), Len(RecordsOf(sink)) - Len(results) + 1,
                 Len(RecordsOf(sink))) = results

\* witness of C6: the first file of the second batch failed, the second
\* was written after the two records of the first batch
FailureIsolationWitness ==
  /\ pc = "scan"
  /\ ~dry_run
  /\ Len(batch) = 2
  /\ batch[1] \in hashFailed
  /\ Len(results) = 1
  /\ Len(RecordsOf(sink)) = 3
  /\ OpenDocument(sink)

\* C7 (Dry run): in a dry run the output file always has the content it had
\* before the run.
DryRunUntouched == dry_run => sink = sink0

\* C8 (Permission recovery): after a permission failure at one entry every
\* other eligible file of the tree was still yielded in some batch.
PermissionRecovery ==
  (pc = "done" /\ walkError = "PermissionError") =>
    \A i \in 1..Len(tree) :
      (i # errPos /\ IsFile(tree[i]) /\ ~IsExcluded(tree[i]))
        => tree[i] \in Range(yielded)

\* C9 (Fatal traversal errors): a traversal failure that is not a permission
\* failure reaches main as a raised exception, not as the end of the
\* sequence of batches.
FatalErrorPropagated ==
  (pc \in {"loop_end", "done"} /\ walkError = "Exception") =>
    loopExit = "raised"

\* C10 (Abort leaves a valid sink): after a walk that ended early because of
\* a traversal error the output file is empty or a complete document holding
\* the records flushed so far.
AbortLeavesValidSink ==
  (pc = "done" /\ walkError # "none") =>
    \/ sink = << >>
    \/ /\ CompleteDocument(sink)
       /\ RecordsOf(sink) = ExpectedRecords(yielded)

\* C11 (Writer failures are fatal): once a write of write_to_json has
\* failed, no further record is appended to the output file and main
\* processes no further batch.
NoWriteAfterFailure ==
  [][writeErrors > 0 =>
       /\ RecordsOf(sink') = RecordsOf(sink)
       /\ pc' \notin {"process", "hashing", "write", "write_entry"}]_vars

\* C12 (Content addressing): the bytes fed to the digest followed by the
\* bytes not yet read are always the content of the file; a call that
\* returns without a read error returns the digest of exactly the content,
\* which is the digest obtained with every other chunk size; a call in
\* which a read raised returns None.
ContentAddressing ==
  /\ hpc \in {"read", "returned"} => hfed \o hrest = hContent
  /\ (hpc = "returned" /\ ~hfailed) =>
       /\ hfed = hContent
       /\ hresult = HexDigest(hContent)
       /\ \A size \in 1..(MaxLen + 1) :
            HexDigest(ReadChunksBy(<< >>, hContent, size)) = hresult
  /\ (hpc = "returned" /\ hfailed) => hresult = None

\* witness of C12: a file of three bytes was read in chunks of two bytes,
\* the last chunk a short one
ContentAddressingWitness ==
  /\ hpc = "returned"
  /\ ~hfailed
  /\ Len(hContent) = 3
  /\ hChunk = 2
  /\ hresult = HexDigest(hContent)

\* a path with an excluded directory name among its segments
HasExcludedSegment(p) == Range(Parts(p)) \cap EXCLUDED_DIRS # {}

\* C13 (Exclusion): the files placed in batches so far are exactly the
\* regular files among the entries scanned so far that have no excluded
\* path segment, in scan order; no path with an excluded segment is ever in
\* a batch or in the output; after a walk without error every regular file
\* without excluded segment was yielded.
Exclusion ==
  /\ yielded \o file_batch
       = SelectSeq(SubSeq(tree, 1, pos - 1),
                   LAMBDA p : IsFile(p) /\ ~HasExcludedSegment(p))
  /\ \A p \in Range(yielded) \cup Range(file_batch) \cup Range(batch)
                \cup { r.file_path : r \in Range(RecordsOf(sink)) } :
       ~HasExcludedSegment(p)
  /\ (pc = "done" /\ walkError = "none") =>
       \A i \in 1..Len(tree) :
         (IsFile(tree[i]) /\ ~HasExcludedSegment(tree[i]))
           => tree[i] \in Range(yielded)

\* witness of C13: a file nested below an excluded directory was scanned
\* and skipped, the files around it were written
ExclusionWitness ==
  /\ pc = "done"
  /\ ~dry_run
  /\ walkError = "none"
  /\ "c/$RECYCLE.BIN/x.txt" \in Range(tree)
  /\ "c/d.txt" \in Range(yielded)
  /\ "e.txt" \in Range(yielded)
  /\ Len(RecordsOf(sink)) >= 2

\* C14 (Terminal batch closes the document): once the batch shorter than
\* the batch size has been processed and the document was opened, by this
\* batch or an earlier one, the output file ends with the closing tokens,
\* also when the terminal batch contributed no record.
TerminalBatchCloses ==
  (Quiescent /\ ~dry_run /\ is_last_batch /\ first_batch_written) =>
    /\ sink # << >>
    /\ sink[Len(sink)] = CLOSING

\* C15 (Single close): the closing tokens are appended at most once in a
\* run, never by both write_to_json and main; the output file holds as many
\* closings as were appended, and a closing is the last token of the file,
\* so nothing is appended after it.
SingleClose ==
  /\ forcedCloses + inbandCloses <= 1
  /\ forcedCloses = 1 => inbandCloses = 0
  /\ pc # "truncate" => CountOf(sink, CLOSING) = forcedCloses + inbandCloses
  /\ \A i \in 1..Len(sink) : sink[i] = CLOSING => i = Len(sink)

\* witness of C15: write_to_json closed the document with the terminal
\* batch and main, after the loop, did not close it again
SingleCloseWitness ==
  /\ pc = "done"
  /\ ~dry_run
  /\ inbandCloses = 1
  /\ forcedCloses = 0
  /\ Len(RecordsOf(sink)) = 3
  /\ BATCH_SIZE = 2
  /\ CompleteDocument(sink)

\* C16 (Single preamble): the output file holds at most one preamble, at
\* its first position and so before every record; it holds one exactly when
\* first_batch_written is set, which between writes of a non-dry run is
\* exactly when some batch so far had a successful result; batches without
\* results and dry runs do not open the document.
SinglePreamble ==
  pc # "truncate" =>
    /\ CountOf(sink, PREAMBLE) <= 1
    /\ CountOf(sink, PREAMBLE) = 1 <=> first_batch_written
    /\ sink # << >> /\ sink[1] # PREAMBLE =>
         \A i \in 1..Len(sink) : sink[i].kind \notin {"PRE", "REC", "SEP"}
    /\ (Quiescent /\ ~dry_run) =>
         (first_batch_written <=> ExpectedRecords(yielded) # << >>)
    /\ dry_run => ~first_batch_written

\* witness of C16: the first batch had no result and did not open the
\* document, the second batch opened it, the third did not open it again
SinglePreambleWitness ==
  /\ pc = "done"
  /\ ~dry_run
  /\ BATCH_SIZE = 1
  /\ Len(yielded) = 3
  /\ yielded[1] \in hashFailed
  /\ Len(RecordsOf(sink)) = 2
  /\ CountOf(sink, PREAMBLE) = 1
  /\ sink[1] = PREAMBLE

\* C17 (Separator rule): the records and separators of the output file
\* alternate, starting and ending with a record, so k records come with
\* k - 1 separators; every separator stands directly between two records;
\* first_entry_written is set exactly when the file holds a record.
SeparatorRule ==
  pc # "truncate" =>
    /\ SeparatedRecords(SelectSeq(sink, LAMBDA t : t.kind \in {"REC", "SEP"}))
    /\ \A i \in 1..Len(sink) :
         sink[i] = SEPARATOR =>
           /\ 1 < i
           /\ i < Len(sink)
           /\ sink[i - 1].kind = "REC"
           /\ sink[i + 1].kind = "REC"
    /\ first_entry_written <=> RecordsOf(sink) # << >>
    /\ RecordsOf(sink) # << >> =>
         CountOf(sink, SEPARATOR) = Len(RecordsOf(sink)) - 1

\* witness of C17: three batches of one file, the second without record;
\* the two records of the first and third batch have one separator
SeparatorRuleWitness ==
  /\ pc = "done"
  /\ ~dry_run
  /\ BATCH_SIZE = 1
  /\ Len(yielded) = 3
  /\ yielded[2] \in hashFailed
  /\ Len(RecordsOf(sink)) = 2
  /\ CountOf(sink, SEPARATOR) = 1

\* main is between receiving a batch and the end of its write
Busy == pc \in {"process", "hashing", "write", "write_entry"}

\* the hashing tasks dispatched and not yet finished
InFlight == IF pc = "hashing" THEN Len(batch) - Len(doneOrder) ELSE 0

\* C18 (Batch barrier): while a batch is written every hashing task of it
\* has finished; while a batch is hashed or written the generator has
\* scanned nothing beyond it; a batch is dispatched only when the records
\* of all earlier batches are in the output file; the files being hashed
\* never exceed the batch size.
BatchBarrier ==
  /\ pc \in {"write", "write_entry"} =>
       /\ Len(doneOrder) = Len(batch)
       /\ \A i \in 1..Len(batch) : \E k \in 1..Len(doneOrder) : doneOrder[k] = i
  /\ Busy =>
       /\ file_batch = << >>
       /\ Len(batch) <= Len(yielded)
       /\ SubSeq(yielded, Len(yielded) - Len(batch) + 1, Len(yielded)) = batch
       /\ yielded = Eligible(SubSeq(tree, 1, pos - 1))
  /\ (pc \in {"process", "hashing"} /\ ~dry_run) =>
       RecordsOf(sink)
         = ExpectedRecords(SubSeq(yielded, 1, Len(yielded) - Len(batch)))
  /\ InFlight <= BATCH_SIZE
  /\ Len(batch) <= BATCH_SIZE

\* witness of C18: the second batch is being written, after its two tasks
\* finished in reverse order
BatchBarrierWitness ==
  /\ pc = "write_entry"
  /\ BATCH_SIZE = 2
  /\ Len(yielded) = 4
  /\ doneOrder = << 2, 1 >>
  /\ widx = 2
  /\ Len(RecordsOf(sink)) = 3

\* C19 (Batching): the batch last yielded is non-empty, no longer than
\* BATCH_SIZE and the tail of the files yielded; the files yielded before
\* it are a multiple of BATCH_SIZE, so every earlier batch was full; once a
\* short batch was yielded the walk is exhausted and nothing more is
\* yielded; the files yielded are a prefix of the eligible files in scan
\* order, and all of them when the walk ended without error.
Batching ==
  /\ Len(file_batch) < BATCH_SIZE
  /\ batch # << >> =>
       /\ Len(batch) <= BATCH_SIZE
       /\ Len(batch) <= Len(yielded)
       /\ SubSeq(yielded, Len(yielded) - Len(batch) + 1, Len(yielded)) = batch
       /\ (Len(yielded) - Len(batch)) % BATCH_SIZE = 0
  /\ batch = << >> => yielded = << >>
  /\ Busy => batch # << >>
  /\ Len(yielded) % BATCH_SIZE # 0 =>
       /\ pos > Len(tree)
       /\ file_batch = << >>
  /\ Len(yielded) <= Len(Eligible(tree))
  /\ yielded = SubSeq(Eligible(tree), 1, Len(yielded))
  /\ (pc \in {"loop_end", "done"} /\ walkError = "none") =>
       yielded = Eligible(tree)

\* witness of C19: four eligible files left the generator as a full batch
\* of three and a last batch of one
BatchingWitness ==
  /\ pc = "done"
  /\ walkError = "none"
  /\ BATCH_SIZE = 3
  /\ Len(yielded) = 4
  /\ Len(batch) = 1
  /\ yielded = Eligible(tree)

\* C20 (Writer state is scoped to one run): at the end of every non-dry
\* call of main that wrote a record, the second call in the process
\* included, the output file starts with the preamble directly followed by
\* the first record.
WriterStateScoped ==
  (pc = "done" /\ ~dry_run /\ RecordsOf(sink) # << >>) =>
    /\ Len(sink) >= 2
    /\ sink[1] = PREAMBLE
    /\ sink[2].kind = "REC"

\* C21 (No record, no orphan close): in a non-dry run whose walk ended
\* without error, a closing is never in an output file that does not start
\* with the preamble, and when the run ends without any record written the
\* file is empty or a complete document with an empty hashes array.
NoOrphanClose ==
  (pc # "truncate" /\ ~dry_run /\ walkError = "none") =>
    /\ CountOf(sink, CLOSING) > 0 => sink[1] = PREAMBLE
    /\ (pc = "done" /\ RecordsOf(sink) = << >>) =>
         (sink = << >> \/ sink = << PREAMBLE, CLOSING >>)
====
